---- MODULE Spec2Model ----
(***************************************************************************)
(* NFS Manager (src/nfsmanager.py): a supervisor that keeps a configured   *)
(* list of NFS shares mounted, guarded by a PID file.                      *)
(*                                                                         *)
(* Four specifications:                                                    *)
(*   SpecCalls  one share, one mount table; every step is one call of      *)
(*              mount_share, unmount_share or of the body of the           *)
(*              check_shares loop, with the results of the backend         *)
(*              commands (mkdir, ls, mount, umount -f, docker) chosen      *)
(*              nondeterministically.                                      *)
(*   Spec       the command-line invocations (start, stop, restart) as     *)
(*              concurrent processes sharing the PID file and the mount    *)
(*              table, with signals.                                       *)
(*   SpecLoop   one start invocation alone, with signals, over every       *)
(*              configuration of up to MaxShares shares.                   *)
(*   SpecLive   one start invocation alone that keeps taking steps, with   *)
(*              an NFS server that goes down and comes back.               *)
(*                                                                         *)
(* A process takes one step per access to what it shares with the others   *)
(* (the PID file, a signal, the shares of one loop iteration); processes   *)
(* interleave freely, no step has a duration. The configuration file is    *)
(* readable and a list of JSON objects, and does not change.               *)
(***************************************************************************)
EXTENDS Integers, Sequences, FiniteSets, TLC

VARIABLES
    mounted,    \* the OS mount table: local path -> is a mount point
    share,      \* SpecCalls: the share the calls are made on
    call,       \* SpecCalls: the last call, its result and the commands it issued
    prev,       \* SpecCalls: operation and result of the call before the last
    config,     \* the shares of the configuration file, in order
    pidFile,    \* PID_FILE: the PID it holds, 0 when it does not exist
    proc,       \* the processes (one per invocation of the command line), by PID
    lastRet,    \* SpecLoop, SpecLive: per share, the outcome of its last check
    nfs         \* SpecLive: the NFS server is "up" or "down"; "any" elsewhere:
                \* every command may succeed or fail at any time

callVars == <<share, call, prev>>
procVars == <<config, pidFile, proc, lastRet>>

----------------------------------------------------------------------------
(* Shares                                                                  *)

Paths == {"/mnt/a", "/mnt/b"}

\* Every share of the configuration file, a missing key read as share.get's
\* default: '' for the strings, "none" for docker, False for delete_on_mount.
ShareSpace ==
    [server : {"", "nfs1"}, remote_path : {"", "/export/data"},
     local_path : {""} \cup Paths, options : {"", "ro"},
     docker : {"none", "app1"}, delete_on_mount : BOOLEAN]

\* all([server, remote_path, local_path, options])
Complete(s) ==
    /\ s.server # ""
    /\ s.remote_path # ""
    /\ s.local_path # ""
    /\ s.options # ""

----------------------------------------------------------------------------
(* Backend commands. An event is one command issued: its arguments, its    *)
(* result, and whether the local path was a mount point when it was issued. *)

Ev(op, arg, ok, mnt) == [op |-> op, arg |-> arg, ok |-> ok, mnt |-> mnt]

Res(ret, m, log) == [ret |-> ret, m |-> m, log |-> log]

\* Path(mount_point).is_mount()
is_mounted(m, path) == path \in DOMAIN m /\ m[path]

\* manage_docker(container_name, action): nothing is run for "none"; else
\* `docker <action> <name>` is run and its exit code decides.
manage_docker(name, action, mnt) ==
    IF name = "none"
    THEN {[ret |-> TRUE, log |-> <<>>]}
    ELSE {[ret |-> ok, log |-> <<Ev(action, <<name>>, ok, mnt)>>] : ok \in BOOLEAN}

\* Faulty variant of unmount_share: the force-unmount is run without asking
\* whether the path is mounted.
unmount_share_unchecked(s, m) ==
    IF s.local_path = ""
    THEN {Res(FALSE, m, <<>>)}
    ELSE LET lp == s.local_path
         IN UNION {
              {Res(ok, [m EXCEPT ![lp] = IF ok THEN FALSE ELSE @],
                   d.log \o <<Ev("umount", <<lp>>, ok, is_mounted(m, lp))>>) : ok \in BOOLEAN}
              : d \in manage_docker(s.docker, "stop", is_mounted(m, lp))}

\* Faulty variant of unmount_share: a workload that cannot be stopped keeps
\* the share mounted.
unmount_share_stop_blocks(s, m) ==
    IF s.local_path = ""
    THEN {Res(FALSE, m, <<>>)}
    ELSE LET lp == s.local_path
             mnt == is_mounted(m, lp)
         IN UNION {
              IF ~d.ret THEN {Res(FALSE, m, d.log)}
              ELSE IF ~mnt
              THEN {Res(TRUE, m, d.log)}
              ELSE {Res(ok, [m EXCEPT ![lp] = ~ok],
                        d.log \o <<Ev("umount", <<lp>>, ok, TRUE)>>) : ok \in BOOLEAN}
              : d \in manage_docker(s.docker, "stop", mnt)}

\* unmount_share(share): the possible results, one per outcome of the commands.
unmount_share(s, m) ==
    IF s.local_path = ""
    THEN {Res(FALSE, m, <<>>)}
    ELSE LET lp == s.local_path
             mnt == is_mounted(m, lp)
         IN UNION {
              IF ~mnt
              THEN {Res(TRUE, m, d.log)}
              ELSE {Res(ok, [m EXCEPT ![lp] = ~ok],
                        d.log \o <<Ev("umount", <<lp>>, ok, TRUE)>>) : ok \in BOOLEAN}
              : d \in manage_docker(s.docker, "stop", mnt)}

\* Faulty variant of mount_fresh: the workload is started as soon as the
\* mount command has succeeded, before the probe.
mount_fresh_unverified(s, m, log) ==
    LET lp == s.local_path
        mnt == is_mounted(m, lp)
        log1 == IF s.delete_on_mount
                THEN log \o <<Ev("clear", <<lp>>, TRUE, mnt)>>
                ELSE log
        mountCmd(ok) == Ev("mount", <<s.server, s.remote_path, lp, s.options>>, ok, mnt)
        m1 == [m EXCEPT ![lp] = TRUE]
    IN  {Res(FALSE, m, log1 \o <<mountCmd(FALSE)>>)}
        \cup UNION {{Res(FALSE, u.m, log1 \o <<mountCmd(TRUE)>> \o d.log
                                  \o <<Ev("probe", <<lp>>, FALSE, TRUE)>> \o u.log)
                       : u \in unmount_share(s, m1)}
                    \cup {Res(d.ret, m1, log1 \o <<mountCmd(TRUE)>> \o d.log
                                   \o <<Ev("probe", <<lp>>, TRUE, TRUE)>>)}
                    : d \in manage_docker(s.docker, "start", TRUE)}

\* Faulty variant of mount_fresh: no unmount after the failed probe.
mount_fresh_kept(s, m, log) ==
    LET lp == s.local_path
        mnt == is_mounted(m, lp)
        log1 == IF s.delete_on_mount
                THEN log \o <<Ev("clear", <<lp>>, TRUE, mnt)>>
                ELSE log
        mountCmd(ok) == Ev("mount", <<s.server, s.remote_path, lp, s.options>>, ok, mnt)
        m1 == [m EXCEPT ![lp] = TRUE]
        log2 == log1 \o <<mountCmd(TRUE)>>
    IN  {Res(FALSE, m, log1 \o <<mountCmd(FALSE)>>)}
        \cup {Res(FALSE, m1, log2 \o <<Ev("probe", <<lp>>, FALSE, TRUE)>>)}
        \cup {Res(d.ret, m1, log2 \o <<Ev("probe", <<lp>>, TRUE, TRUE)>> \o d.log)
                : d \in manage_docker(s.docker, "start", TRUE)}

\* Faulty variant of mount_fresh: the mount command is run without the
\* options of the share.
mount_fresh_no_options(s, m, log) ==
    LET lp == s.local_path
        mnt == is_mounted(m, lp)
        log1 == IF s.delete_on_mount
                THEN log \o <<Ev("clear", <<lp>>, TRUE, mnt)>>
                ELSE log
        mountCmd(ok) == Ev("mount", <<s.server, s.remote_path, lp, "">>, ok, mnt)
        m1 == [m EXCEPT ![lp] = TRUE]
        log2 == log1 \o <<mountCmd(TRUE)>>
    IN  {Res(FALSE, m, log1 \o <<mountCmd(FALSE)>>)}
        \cup {Res(FALSE, u.m, log2 \o <<Ev("probe", <<lp>>, FALSE, TRUE)>> \o u.log)
                : u \in unmount_share(s, m1)}
        \cup {Res(d.ret, m1, log2 \o <<Ev("probe", <<lp>>, TRUE, TRUE)>> \o d.log)
                : d \in manage_docker(s.docker, "start", TRUE)}

\* mount_share from `if delete_on_mount` on: clean_directory, the mount
\* command, the probe, the unmount of an inaccessible mount, the workload.
mount_fresh(s, m, log) ==
    LET lp == s.local_path
        mnt == is_mounted(m, lp)
        log1 == IF s.delete_on_mount
                THEN log \o <<Ev("clear", <<lp>>, TRUE, mnt)>>
                ELSE log
        mountCmd(ok) == Ev("mount", <<s.server, s.remote_path, lp, s.options>>, ok, mnt)
        m1 == [m EXCEPT ![lp] = TRUE]
        log2 == log1 \o <<mountCmd(TRUE)>>
    IN  {Res(FALSE, m, log1 \o <<mountCmd(FALSE)>>)}
        \cup {Res(FALSE, u.m, log2 \o <<Ev("probe", <<lp>>, FALSE, TRUE)>> \o u.log)
                : u \in unmount_share(s, m1)}
        \cup {Res(d.ret, m1, log2 \o <<Ev("probe", <<lp>>, TRUE, TRUE)>> \o d.log)
                : d \in manage_docker(s.docker, "start", TRUE)}

\* Faulty variant of mount_share: the mount point is created before the share
\* is validated.
mount_share_mkdir_first(s, m) ==
    LET lp == s.local_path
        mnt == is_mounted(m, lp)
        mk(ok) == <<Ev("mkdir", <<lp>>, ok, mnt)>>
    IN  {Res(FALSE, m, mk(FALSE))}
        \cup
        (IF ~Complete(s)
         THEN {Res(FALSE, m, mk(TRUE))}
         ELSE IF mnt
         THEN {Res(TRUE, m, mk(TRUE) \o <<Ev("probe", <<lp>>, TRUE, TRUE)>>)}
              \cup UNION {mount_fresh(s, u.m,
                             mk(TRUE) \o <<Ev("probe", <<lp>>, FALSE, TRUE)>> \o u.log)
                          : u \in unmount_share(s, m)}
         ELSE mount_fresh(s, m, mk(TRUE)))

\* Faulty variant of mount_share: an accessible mount is mounted again.
mount_share_again(s, m) ==
    IF ~Complete(s)
    THEN {Res(FALSE, m, <<>>)}
    ELSE LET lp == s.local_path
             mnt == is_mounted(m, lp)
             mk(ok) == <<Ev("mkdir", <<lp>>, ok, mnt)>>
         IN  {Res(FALSE, m, mk(FALSE))}
             \cup
             (IF mnt
              THEN mount_fresh(s, m, mk(TRUE) \o <<Ev("probe", <<lp>>, TRUE, TRUE)>>)
                   \cup UNION {mount_fresh(s, u.m,
                                  mk(TRUE) \o <<Ev("probe", <<lp>>, FALSE, TRUE)>> \o u.log)
                               : u \in unmount_share(s, m)}
              ELSE mount_fresh(s, m, mk(TRUE)))

\* mount_share(share): the possible results, one per outcome of the commands.
mount_share(s, m) ==
    IF ~Complete(s)
    THEN {Res(FALSE, m, <<>>)}
    ELSE LET lp == s.local_path
             mnt == is_mounted(m, lp)
             mk(ok) == <<Ev("mkdir", <<lp>>, ok, mnt)>>
         IN  \* mkdir raises: caught by the except of mount_share
             {Res(FALSE, m, mk(FALSE))}
             \cup
             (IF mnt
              THEN {Res(TRUE, m, mk(TRUE) \o <<Ev("probe", <<lp>>, TRUE, TRUE)>>)}
                   \cup UNION {mount_fresh(s, u.m,
                                  mk(TRUE) \o <<Ev("probe", <<lp>>, FALSE, TRUE)>> \o u.log)
                               : u \in unmount_share(s, m)}
              ELSE mount_fresh(s, m, mk(TRUE)))

CRes(called, ret, fault, m, log) ==
    [called |-> called, ret |-> ret, fault |-> fault, m |-> m, log |-> log]

\* Faulty variant of check_share: a share that is not mounted is left alone.
check_share_no_mount(s, m) ==
    IF s.local_path = ""
    THEN {CRes(FALSE, FALSE, FALSE, m, <<>>)}
    ELSE LET lp == s.local_path
             remount(m0, log) ==
                 {CRes(TRUE, r.ret, FALSE, r.m, log \o r.log) : r \in mount_share(s, m0)}
         IN  {CRes(FALSE, FALSE, TRUE, m, <<>>)}
             \cup
             (IF is_mounted(m, lp)
              THEN {CRes(FALSE, FALSE, FALSE, m, <<Ev("probe", <<lp>>, TRUE, TRUE)>>)}
                   \cup UNION {remount(u.m, <<Ev("probe", <<lp>>, FALSE, TRUE)>> \o u.log)
                               : u \in unmount_share(s, m)}
              ELSE {CRes(FALSE, FALSE, FALSE, m, <<>>)})

\* The body of the loop of check_shares for one share: `called` tells whether
\* mount_share was called and `ret` what it returned; `fault` that the body
\* raised and the except of the loop caught it.
check_share(s, m) ==
    IF s.local_path = ""
    THEN {CRes(FALSE, FALSE, FALSE, m, <<>>)}
    ELSE LET lp == s.local_path
             remount(m0, log) ==
                 {CRes(TRUE, r.ret, FALSE, r.m, log \o r.log) : r \in mount_share(s, m0)}
         IN  {CRes(FALSE, FALSE, TRUE, m, <<>>)}
             \cup
             (IF is_mounted(m, lp)
              THEN {CRes(FALSE, FALSE, FALSE, m, <<Ev("probe", <<lp>>, TRUE, TRUE)>>)}
                   \cup UNION {remount(u.m, <<Ev("probe", <<lp>>, FALSE, TRUE)>> \o u.log)
                               : u \in unmount_share(s, m)}
              ELSE remount(m, <<>>))

----------------------------------------------------------------------------
(* SpecCalls                                                               *)

InitCalls ==
    /\ mounted \in [Paths -> BOOLEAN]
    /\ share \in ShareSpace
    /\ call = [op |-> "none", ret |-> FALSE, called |-> FALSE, fault |-> FALSE,
               before |-> mounted, log |-> <<>>]
    /\ prev = [op |-> "none", ret |-> FALSE]
    /\ config = <<>>
    /\ pidFile = 0
    /\ proc = <<>>
    /\ lastRet = <<>>
    /\ nfs = "any"

Record(op, r, called, fault) ==
    /\ call' = [op |-> op, ret |-> r.ret, called |-> called, fault |-> fault,
                before |-> mounted, log |-> r.log]
    /\ prev' = [op |-> call.op, ret |-> call.ret]
    /\ mounted' = r.m
    /\ UNCHANGED <<share, nfs, procVars>>

CallMountShare == \E r \in mount_share(share, mounted) : Record("mount_share", r, FALSE, FALSE)

CallUnmountShare == \E r \in unmount_share(share, mounted) : Record("unmount_share", r, FALSE, FALSE)

CallCheckShare == \E r \in check_share(share, mounted) : Record("check_share", r, r.called, r.fault)

NextCalls == CallMountShare \/ CallUnmountShare \/ CallCheckShare

vars == <<mounted, share, call, prev, config, pidFile, proc, lastRet, nfs>>

SpecCalls == InitCalls /\ [][NextCalls]_vars

----------------------------------------------------------------------------
(* Properties of the calls (SpecCalls)                                     *)

Log == call.log
Idx == 1..Len(call.log)
Issued(op) == \E i \in Idx : Log[i].op = op
\* The mount command succeeded and the probe after it failed.
UntrustedMount ==
    \E i \in Idx : /\ Log[i].op = "mount" /\ Log[i].ok
                   /\ i < Len(Log) /\ Log[i+1].op = "probe" /\ ~Log[i+1].ok

\* C3: a workload start is issued only inside mount_share, for a workload
\* other than "none", directly after the accessibility probe returned
\* accessible, that probe directly after the mount command returned success.
C3_StartAfterVerifiedMount ==
    \A i \in Idx : Log[i].op = "start" =>
        /\ call.op = "mount_share" \/ (call.op = "check_share" /\ call.called)
        /\ share.docker # "none" /\ Log[i].arg = <<share.docker>>
        /\ i > 2
        /\ Log[i-1].op = "probe" /\ Log[i-1].ok
        /\ Log[i-2].op = "mount" /\ Log[i-2].ok
        /\ \A j \in Idx : j # i => Log[j].op # "start"

C3_Witness ==
    /\ call.op = "mount_share" /\ Issued("start")
    /\ \E i \in Idx : Log[i].op = "probe" /\ ~Log[i].ok

\* C5 as claimed: after a successful mount command and a failed probe,
\* mount_share returns failure and the path is not mounted, whatever the
\* other commands returned.
C5_Original ==
    (call.op = "mount_share" /\ Complete(share) /\ UntrustedMount) =>
        ~call.ret /\ ~is_mounted(mounted, share.local_path)

\* C5 amended: after a successful mount command and a failed probe,
\* mount_share returns failure having issued the force-unmount of the path
\* as its last command, and the path is left mounted exactly when that
\* force-unmount failed.
C5_UntrustedMountRollback ==
    (call.op = "mount_share" /\ Complete(share) /\ UntrustedMount) =>
        /\ ~call.ret
        /\ Log[Len(Log)].op = "umount" /\ Log[Len(Log)].arg = <<share.local_path>>
        /\ is_mounted(mounted, share.local_path) <=> ~Log[Len(Log)].ok

C5_Witness ==
    /\ call.op = "mount_share" /\ Complete(share) /\ UntrustedMount
    /\ ~is_mounted(mounted, share.local_path)

\* C8: mount_share on a share with an empty server, remote_path, local_path
\* or options returns failure, issues no command (no mkdir, clear, mount,
\* umount, docker) and leaves the mount table as it was.
C8_IncompleteRejected ==
    (call.op = "mount_share" /\ ~Complete(share)) =>
        ~call.ret /\ Log = <<>> /\ mounted = call.before

C8_Witness ==
    /\ call.op = "mount_share" /\ ~Complete(share)
    /\ share.local_path # "" /\ share.options = ""
    /\ share.delete_on_mount /\ share.docker # "none"

\* C9: mount_share called directly after a successful mount_share of the
\* same share, the path still accessible (the probe of the second call
\* answers accessible), returns success, issues no mount, umount, clear or
\* docker command, and leaves the mount table as it was.
C9_MountShareIdempotent ==
    (/\ prev.op = "mount_share" /\ prev.ret
     /\ call.op = "mount_share"
     /\ Len(Log) >= 2 /\ Log[2].op = "probe" /\ Log[2].ok) =>
        /\ call.ret
        /\ \A i \in Idx : Log[i].op \in {"mkdir", "probe"}
        /\ Len(Log) = 2
        /\ mounted = call.before

C9_Witness ==
    /\ prev.op = "mount_share" /\ prev.ret
    /\ call.op = "mount_share" /\ call.ret
    /\ Len(Log) = 2 /\ Log[2].op = "probe"

\* C10 as claimed: unmount_share on every share whose local path is not a
\* mount point returns success without issuing the force-unmount.
C10_Original ==
    (call.op = "unmount_share" /\ ~is_mounted(call.before, share.local_path)) =>
        call.ret /\ ~Issued("umount")

\* C10 amended: unmount_share on every share with a non-empty local path that
\* is not a mount point returns success without issuing the force-unmount
\* (on a share without local path it returns failure).
C10_UnmountNoOp ==
    /\ (call.op = "unmount_share" /\ share.local_path # ""
          /\ ~is_mounted(call.before, share.local_path)) =>
            call.ret /\ ~Issued("umount") /\ mounted = call.before
    /\ (call.op = "unmount_share" /\ share.local_path = "") =>
            ~call.ret /\ Log = <<>>

C10_Witness ==
    /\ call.op = "unmount_share" /\ share.local_path # ""
    /\ ~is_mounted(call.before, share.local_path)
    /\ call.ret /\ Issued("stop")

\* C11: in a call on a share with a workload, every force-unmount is directly
\* preceded by the stop of that workload, whatever the stop returned; and
\* unmount_share on a mounted path issues the stop, then the force-unmount,
\* also when the stop failed.
C11_StopBeforeUnmount ==
    share.docker # "none" =>
        /\ \A i \in Idx : Log[i].op = "umount" =>
              /\ i > 1
              /\ Log[i-1].op = "stop" /\ Log[i-1].arg = <<share.docker>>
        /\ (call.op = "unmount_share" /\ is_mounted(call.before, share.local_path)) =>
              /\ Len(Log) = 2
              /\ Log[1].op = "stop" /\ Log[1].arg = <<share.docker>>
              /\ Log[2].op = "umount" /\ Log[2].arg = <<share.local_path>>

\* The stop failed and the force-unmount was issued after it.
C11_Witness ==
    /\ call.op = "unmount_share" /\ share.docker # "none"
    /\ Len(Log) = 2
    /\ Log[1].op = "stop" /\ ~Log[1].ok
    /\ Log[2].op = "umount" /\ Log[2].ok

Count(op) == Cardinality({i \in Idx : Log[i].op = op})

\* C13: the body of the check_shares loop, on a complete share whose path is
\* not mounted, nothing raising, the mount point created, the mount command
\* and the probe succeeding, issues exactly one mount command, with
\* server, remote_path, local_path and options of the share, and no
\* force-unmount; for a workload other than "none" exactly one start of it,
\* after the mount command, and for "none" no start.
C13_SingleShareReconciled ==
    (/\ call.op = "check_share" /\ ~call.fault
     /\ Complete(share) /\ ~is_mounted(call.before, share.local_path)
     /\ \A i \in Idx : Log[i].op \in {"mkdir", "mount", "probe"} => Log[i].ok) =>
        /\ Count("mount") = 1
        /\ \A i \in Idx : Log[i].op = "mount" =>
              Log[i].arg = <<share.server, share.remote_path, share.local_path, share.options>>
        /\ ~Issued("umount")
        /\ Count("start") = (IF share.docker = "none" THEN 0 ELSE 1)
        /\ \A i \in Idx : Log[i].op = "start" =>
              /\ Log[i].arg = <<share.docker>>
              /\ \E j \in Idx : j < i /\ Log[j].op = "mount"
        /\ is_mounted(mounted, share.local_path)

C13_Witness ==
    /\ call.op = "check_share" /\ call.called /\ call.ret
    /\ ~is_mounted(call.before, share.local_path)
    /\ share.docker # "none" /\ Issued("start") /\ Issued("mount")

\* C20: in a call on a share with delete_on_mount, clean_directory and the
\* mount command run only while the local path is not a mount point.
C20_NoClearWhileMounted ==
    share.delete_on_mount =>
        \A i \in Idx : Log[i].op \in {"clear", "mount"} => ~Log[i].mnt

----------------------------------------------------------------------------
(* Spec: the invocations of the command line as concurrent processes       *)

NumProcs == 2
Procs == 1..NumProcs

\* `for _ in range(60)` of start(), `for _ in range(10)` of
\* stop_running_instance()
SleepIncrements == 60
StopPolls == 10

ShareA == [server |-> "nfs1", remote_path |-> "/export/data", local_path |-> "/mnt/a",
           options |-> "ro", docker |-> "app1", delete_on_mount |-> FALSE]
ShareB == [server |-> "nfs1", remote_path |-> "/export/data", local_path |-> "/mnt/b",
           options |-> "ro", docker |-> "none", delete_on_mount |-> TRUE]
ShareNoServer == [ShareB EXCEPT !.server = ""]
ShareNoPath == [ShareA EXCEPT !.local_path = ""]

Configs == {<<ShareA, ShareB>>, <<ShareNoPath, ShareA>>}

\* A process: cmd is sys.argv[1]; pc where it is in main(); running is
\* self.running; hooked tells that setup_signal_handlers has run; idx is the
\* share the loop of check_shares or cleanup is at; cnt the iterations done
\* of the sleep loop or of the poll loop; target the PID that
\* stop_running_instance read. wrote and cleanups record that it has written
\* the PID file and how many cleanup() calls it has completed; exit is how it
\* ended: "" not yet, "0" by returning from main(), "1" by sys.exit(1),
\* "signal" killed by a signal.
NotLaunched ==
    [cmd |-> "none", pc |-> "idle", running |-> FALSE, hooked |-> FALSE,
     idx |-> 0, cnt |-> 0, target |-> 0, wrote |-> FALSE, cleanups |-> 0,
     exit |-> ""]

\* The process is gone: it has no state but what it did.
Dead(s) == [s EXCEPT !.pc = "dead", !.running = FALSE, !.idx = 0, !.cnt = 0,
                     !.target = 0]

\* os.kill(pid, 0) succeeds
Alive(p) == p \in Procs /\ proc[p].pc \notin {"idle", "dead"}

NoCallYet == [op |-> "none", ret |-> FALSE, called |-> FALSE, fault |-> FALSE,
              before |-> mounted, log |-> <<>>]

\* The PID of a process that is gone, left in the PID file by an instance
\* that ended without cleanup (a crash, a reboot).
StalePid == NumProcs + 1

Init ==
    /\ mounted = [p \in Paths |-> FALSE]
    /\ config \in Configs
    /\ pidFile \in {0, StalePid}
    /\ proc = [p \in Procs |-> NotLaunched]
    /\ lastRet = <<>>
    /\ nfs = "any"
    /\ share = ShareA
    /\ call = NoCallYet
    /\ prev = [op |-> "none", ret |-> FALSE]

\* main(): NFSManager() sets self.running, then the dispatch on sys.argv[1].
\* Processes get their PIDs in the order they are launched.
Launch(p, c) ==
    /\ proc[p].pc = "idle"
    /\ \A q \in Procs : q < p => proc[q].pc # "idle"
    /\ proc' = [proc EXCEPT ![p] = [@ EXCEPT !.cmd = c, !.running = TRUE,
                    !.pc = IF c = "start" THEN "start" ELSE "main"]]
    /\ UNCHANGED <<mounted, callVars, nfs, config, pidFile, lastRet>>

\* Faulty variant of is_running: a stale PID file is treated as no PID file
\* and left where it is.
is_running_keeps_stale == IF pidFile # 0 /\ Alive(pidFile) THEN "yes" ELSE "no"

\* is_running() up to its result: "yes", "no", or "stale" when the PID file
\* names a dead process and remove_pid_file is still to run.
is_running == IF pidFile = 0 THEN "no" ELSE IF Alive(pidFile) THEN "yes" ELSE "stale"

\* remove_pid_file()
remove_pid_file == pidFile' = 0

\* What follows is_running() returning False, and stop_running_instance, in
\* main(): stop returns and the process exits (no exit hook is registered),
\* restart calls start().
AfterStop(s) ==
    IF s.cmd = "stop" THEN [Dead(s) EXCEPT !.exit = "0"]
    ELSE [s EXCEPT !.pc = "start", !.target = 0, !.cnt = 0]

\* main(): `if manager.is_running()` of stop and restart
MainIsRunning(p) ==
    /\ proc[p].pc = "main"
    /\ proc' = [proc EXCEPT ![p] =
                  CASE is_running = "yes" -> [@ EXCEPT !.pc = "k_term"]
                    [] is_running = "stale" -> [@ EXCEPT !.pc = "main_rm"]
                    [] OTHER -> AfterStop(@)]
    /\ UNCHANGED <<mounted, callVars, nfs, config, pidFile, lastRet>>

\* is_running() of main(), the PID file stale: remove_pid_file, return False
MainRemoveStale(p) ==
    /\ proc[p].pc = "main_rm"
    /\ remove_pid_file
    /\ proc' = [proc EXCEPT ![p] = AfterStop(@)]
    /\ UNCHANGED <<mounted, callVars, nfs, config, lastRet>>

\* signal_handler when it is installed; else the default action of SIGTERM
\* and SIGINT: the process dies and no exit hook runs.
signal_handler(s) ==
    IF s.hooked THEN [s EXCEPT !.running = FALSE] ELSE [Dead(s) EXCEPT !.exit = "signal"]

\* stop_running_instance(): read the PID file and send SIGTERM
StopTerm(p) ==
    /\ proc[p].pc = "k_term"
    /\ IF pidFile = 0
       THEN \* no PID file: return False
            proc' = [proc EXCEPT ![p] = AfterStop(@)]
       ELSE IF Alive(pidFile)
       THEN proc' = [proc EXCEPT ![pidFile] = signal_handler(@),
                                 ![p] = [@ EXCEPT !.pc = "k_poll", !.target = pidFile,
                                                  !.cnt = 0]]
       ELSE \* OSError: remove_pid_file, return False
            proc' = [proc EXCEPT ![p] = [@ EXCEPT !.pc = "k_err"]]
    /\ UNCHANGED <<mounted, callVars, nfs, config, pidFile, lastRet>>

\* stop_running_instance(): one iteration of the poll loop; when os.kill(pid, 0)
\* raises, remove_pid_file and return True are next ("k_rm")
StopPoll(p) ==
    /\ proc[p].pc = "k_poll"
    /\ proc[p].cnt < StopPolls
    /\ IF Alive(proc[p].target)
       THEN \* time.sleep(1)
            proc' = [proc EXCEPT ![p] = [@ EXCEPT !.cnt = @ + 1]]
       ELSE proc' = [proc EXCEPT ![p] = [@ EXCEPT !.pc = "k_rm", !.cnt = 0, !.target = 0]]
    /\ UNCHANGED <<mounted, callVars, nfs, config, pidFile, lastRet>>

\* stop_running_instance(): the poll loop is exhausted, send SIGKILL. It
\* raises OSError when the target has ended since the last poll, and the
\* except of line 94 follows: remove_pid_file and return False ("k_err")
StopKill(p) ==
    /\ proc[p].pc = "k_poll"
    /\ proc[p].cnt = StopPolls
    /\ IF Alive(proc[p].target)
       THEN proc' = [proc EXCEPT ![proc[p].target] = [Dead(@) EXCEPT !.exit = "signal"],
                                 ![p] = [@ EXCEPT !.pc = "k_rm", !.cnt = 0, !.target = 0]]
       ELSE proc' = [proc EXCEPT ![p] = [@ EXCEPT !.pc = "k_err", !.cnt = 0, !.target = 0]]
    /\ UNCHANGED <<mounted, callVars, nfs, config, pidFile, lastRet>>

\* stop_running_instance(): remove_pid_file and return, True from "k_rm" and
\* False from "k_err" (main() ignores which); restart goes on with
\* time.sleep(2) and start()
StopRemove(p) ==
    /\ proc[p].pc \in {"k_rm", "k_err"}
    /\ remove_pid_file
    /\ proc' = [proc EXCEPT ![p] = AfterStop(@)]
    /\ UNCHANGED <<mounted, callVars, nfs, config, lastRet>>

\* Faulty variant of StartIsRunning: setup_signal_handlers() is called before
\* the check, so that sys.exit(1) runs the exit hook.
StartIsRunning_hooked(p) ==
    /\ proc[p].pc = "start"
    /\ proc' = [proc EXCEPT ![p] =
                  CASE is_running = "yes" -> [@ EXCEPT !.pc = "exit_rm", !.hooked = TRUE]
                    [] is_running = "stale" -> [@ EXCEPT !.pc = "start_rm"]
                    [] OTHER -> [@ EXCEPT !.pc = "setup"]]
    /\ UNCHANGED <<mounted, callVars, nfs, config, pidFile, lastRet>>

\* start(): `if self.is_running(): sys.exit(1)`
StartIsRunning(p) ==
    /\ proc[p].pc = "start"
    /\ proc' = [proc EXCEPT ![p] =
                  CASE is_running = "yes" -> [Dead(@) EXCEPT !.exit = "1"]
                    [] is_running = "stale" -> [@ EXCEPT !.pc = "start_rm"]
                    [] OTHER -> [@ EXCEPT !.pc = "setup"]]
    /\ UNCHANGED <<mounted, callVars, nfs, config, pidFile, lastRet>>

\* is_running() of start(), the PID file stale: remove_pid_file, return False
StartRemoveStale(p) ==
    /\ proc[p].pc = "start_rm"
    /\ remove_pid_file
    /\ proc' = [proc EXCEPT ![p] = [@ EXCEPT !.pc = "setup"]]
    /\ UNCHANGED <<mounted, callVars, nfs, config, lastRet>>

\* start(): setup_signal_handlers() and write_pid_file()
StartSetup(p) ==
    /\ proc[p].pc = "setup"
    /\ pidFile' = p
    /\ proc' = [proc EXCEPT ![p] = [@ EXCEPT !.pc = "while", !.hooked = TRUE,
                                             !.wrote = TRUE]]
    /\ UNCHANGED <<mounted, callVars, nfs, config, lastRet>>

\* start(): `while self.running`, and read_config() of check_shares
LoopTest(p) ==
    /\ proc[p].pc = "while"
    /\ proc' = [proc EXCEPT ![p] =
                  IF ~@.running THEN [@ EXCEPT !.pc = "fin_rm"]
                  ELSE IF Len(config) = 0 THEN [@ EXCEPT !.pc = "sleep"]
                  ELSE [@ EXCEPT !.pc = "share", !.idx = 1]]
    /\ UNCHANGED <<mounted, callVars, nfs, config, pidFile, lastRet>>

Outcome(r) ==
    IF r.fault THEN "fault" ELSE IF ~r.called THEN "none" ELSE IF r.ret THEN "ok" ELSE "fail"

\* run_command and the file system under the NFS server of SpecLive: of the
\* results R of a call, those where nothing raises, the mount point is
\* created, and `mount` and `ls` succeed when the server is up and fail when
\* it is down; `umount -f` and docker succeed or fail as they like. All of R
\* where the server is "any".
Backend(R) ==
    IF nfs = "any" THEN R
    ELSE {r \in R :
            /\ ~r.fault
            /\ \A i \in 1..Len(r.log) :
                  /\ r.log[i].op = "mkdir" => r.log[i].ok
                  /\ r.log[i].op \in {"mount", "probe"} => (r.log[i].ok <=> nfs = "up")}

\* Faulty variant of check_shares: the try is around the loop, so that a
\* share that raises ends the loop.
check_shares_try_outside(p) ==
    /\ proc[p].pc = "share"
    /\ \E r \in Backend(check_share(config[proc[p].idx], mounted)) :
          /\ mounted' = r.m
          /\ lastRet' = IF lastRet = <<>> THEN lastRet
                        ELSE [lastRet EXCEPT ![proc[p].idx] = Outcome(r)]
          /\ proc' = [proc EXCEPT ![p] =
                        IF @.idx < Len(config) /\ ~r.fault THEN [@ EXCEPT !.idx = @ + 1]
                        ELSE [@ EXCEPT !.pc = "sleep", !.idx = 0, !.cnt = 0]]
    /\ UNCHANGED <<callVars, nfs, config, pidFile>>

\* check_shares(): the body of the loop for share idx, then the next share or,
\* after the last one, the sleep loop of start(). lastRet, where it is kept,
\* records what became of the share.
check_shares(p) ==
    /\ proc[p].pc = "share"
    /\ \E r \in Backend(check_share(config[proc[p].idx], mounted)) :
          /\ mounted' = r.m
          /\ lastRet' = IF lastRet = <<>> THEN lastRet
                        ELSE [lastRet EXCEPT ![proc[p].idx] = Outcome(r)]
    /\ proc' = [proc EXCEPT ![p] =
                  IF @.idx < Len(config) THEN [@ EXCEPT !.idx = @ + 1]
                  ELSE [@ EXCEPT !.pc = "sleep", !.idx = 0, !.cnt = 0]]
    /\ UNCHANGED <<callVars, nfs, config, pidFile>>

\* Faulty variant of Sleep: the flag is not looked at between the increments.
Sleep_unchecked(p) ==
    /\ proc[p].pc = "sleep"
    /\ proc' = [proc EXCEPT ![p] =
                  IF @.cnt < SleepIncrements
                  THEN [@ EXCEPT !.cnt = @ + 1]
                  ELSE [@ EXCEPT !.pc = "while", !.cnt = 0]]
    /\ UNCHANGED <<mounted, callVars, nfs, config, pidFile, lastRet>>

\* start(): one iteration of `for _ in range(60)`
Sleep(p) ==
    /\ proc[p].pc = "sleep"
    /\ proc' = [proc EXCEPT ![p] =
                  IF @.cnt < SleepIncrements /\ @.running
                  THEN [@ EXCEPT !.cnt = @ + 1]               \* time.sleep(1)
                  ELSE [@ EXCEPT !.pc = "while", !.cnt = 0]]  \* break, or exhausted
    /\ UNCHANGED <<mounted, callVars, nfs, config, pidFile, lastRet>>

\* cleanup() is run by the finally of start() ("fin") and again by the exit
\* hook ("exit"). What follows a completed cleanup():
AfterCleanup(s) ==
    IF s.pc \in {"fin_rm", "fin_um"}
    THEN [s EXCEPT !.pc = "exit_rm", !.idx = 0, !.cleanups = @ + 1]
    ELSE [Dead(s) EXCEPT !.cleanups = @ + 1, !.exit = "0"]

\* cleanup(): remove_pid_file() and read_config()
CleanupRemove(p) ==
    /\ proc[p].pc \in {"fin_rm", "exit_rm"}
    /\ remove_pid_file
    /\ proc' = [proc EXCEPT ![p] =
                  IF Len(config) = 0 THEN AfterCleanup(@)
                  ELSE [@ EXCEPT !.pc = IF @ = "fin_rm" THEN "fin_um" ELSE "exit_um",
                                 !.idx = 1]]
    /\ UNCHANGED <<mounted, callVars, nfs, config, lastRet>>

\* Faulty variant of CleanupUnmount: the first unmount_share that fails ends
\* cleanup().
CleanupUnmount_abort(p) ==
    /\ proc[p].pc \in {"fin_um", "exit_um"}
    /\ \E r \in unmount_share(config[proc[p].idx], mounted) :
          /\ mounted' = r.m
          /\ proc' = [proc EXCEPT ![p] =
                        IF @.idx < Len(config) /\ r.ret THEN [@ EXCEPT !.idx = @ + 1]
                        ELSE AfterCleanup(@)]
    /\ UNCHANGED <<callVars, nfs, config, pidFile, lastRet>>

\* cleanup(): unmount_share of share idx
CleanupUnmount(p) ==
    /\ proc[p].pc \in {"fin_um", "exit_um"}
    /\ \E r \in unmount_share(config[proc[p].idx], mounted) : mounted' = r.m
    /\ proc' = [proc EXCEPT ![p] =
                  IF @.idx < Len(config) THEN [@ EXCEPT !.idx = @ + 1]
                  ELSE AfterCleanup(@)]
    /\ UNCHANGED <<callVars, nfs, config, pidFile, lastRet>>

\* SIGTERM or SIGINT from outside (a terminal, the init system)
Signal(q) ==
    /\ Alive(q)
    /\ proc' = [proc EXCEPT ![q] = signal_handler(@)]
    /\ UNCHANGED <<mounted, callVars, nfs, config, pidFile, lastRet>>

Next ==
    \E p \in Procs :
        \/ \E c \in {"start", "stop", "restart"} : Launch(p, c)
        \/ MainIsRunning(p)
        \/ MainRemoveStale(p)
        \/ StopTerm(p)
        \/ StopPoll(p)
        \/ StopKill(p)
        \/ StopRemove(p)
        \/ StartIsRunning(p)
        \/ StartRemoveStale(p)
        \/ StartSetup(p)
        \/ LoopTest(p)
        \/ check_shares(p)
        \/ Sleep(p)
        \/ CleanupRemove(p)
        \/ CleanupUnmount(p)
        \/ Signal(p)

Spec == Init /\ [][Next]_vars

----------------------------------------------------------------------------
(* SpecLoop: one `start` invocation alone, with signals from outside; the  *)
(* configuration is any list of up to MaxShares shares, the mount table is *)
(* in any state, and lastRet records what became of every share.          *)

MaxShares == 2

LoopConfigs ==
    UNION {[1..n -> {ShareA, ShareB, ShareNoServer, ShareNoPath}] : n \in 1..MaxShares}

InitLoop ==
    /\ mounted \in [Paths -> BOOLEAN]
    /\ config \in LoopConfigs
    /\ pidFile \in {0, StalePid}
    /\ proc = [p \in Procs |-> IF p = 1
                                THEN [NotLaunched EXCEPT !.cmd = "start", !.pc = "start",
                                                         !.running = TRUE]
                                ELSE NotLaunched]
    /\ lastRet = [i \in 1..Len(config) |-> "none"]
    /\ nfs = "any"
    /\ share = ShareA
    /\ call = NoCallYet
    /\ prev = [op |-> "none", ret |-> FALSE]

NextLoop ==
    \E p \in Procs :
        \/ StartIsRunning(p)
        \/ StartRemoveStale(p)
        \/ StartSetup(p)
        \/ LoopTest(p)
        \/ check_shares(p)
        \/ Sleep(p)
        \/ CleanupRemove(p)
        \/ CleanupUnmount(p)
        \/ Signal(p)

SpecLoop == InitLoop /\ [][NextLoop]_vars

----------------------------------------------------------------------------
(* SpecLive: one `start` invocation alone that keeps taking steps (the     *)
(* commands it runs return, time.sleep returns). The NFS server is up or   *)
(* down: while it is down `mount` and `ls` fail and mounts may vanish      *)
(* (a lazy unmount by an administrator, an automounter timeout); while it  *)
(* is up they succeed and nobody else touches the mounts.                  *)

LiveConfigs == Configs \cup {<<ShareB, ShareNoServer>>}

InitLive ==
    /\ mounted \in [Paths -> BOOLEAN]
    /\ config \in LiveConfigs
    /\ pidFile \in {0, StalePid}
    /\ proc = [p \in Procs |-> IF p = 1
                                THEN [NotLaunched EXCEPT !.cmd = "start", !.pc = "start",
                                                         !.running = TRUE]
                                ELSE NotLaunched]
    /\ lastRet = [i \in 1..Len(config) |-> "none"]
    /\ nfs \in {"up", "down"}
    /\ share = ShareA
    /\ call = NoCallYet
    /\ prev = [op |-> "none", ret |-> FALSE]

\* The server goes down, or comes back.
NfsChange ==
    /\ nfs # "any"
    /\ nfs' = IF nfs = "up" THEN "down" ELSE "up"
    /\ UNCHANGED <<mounted, callVars, procVars>>

\* Somebody else unmounts a path.
ExternalUnmount(path) ==
    /\ nfs = "down"
    /\ mounted[path]
    /\ mounted' = [mounted EXCEPT ![path] = FALSE]
    /\ UNCHANGED <<callVars, nfs, procVars>>

\* A step of start(), from its first line to the end of the process.
StartStep(p) ==
    \/ StartIsRunning(p)
    \/ StartRemoveStale(p)
    \/ StartSetup(p)
    \/ LoopTest(p)
    \/ check_shares(p)
    \/ Sleep(p)
    \/ CleanupRemove(p)
    \/ CleanupUnmount(p)

NextLive ==
    \/ \E p \in Procs : StartStep(p) \/ Signal(p)
    \/ NfsChange
    \/ \E path \in Paths : ExternalUnmount(path)

SpecLive == InitLive /\ [][NextLive]_vars /\ WF_vars(\E p \in Procs : StartStep(p))

----------------------------------------------------------------------------
(* Properties of the processes                                             *)

\* Past the is_running check of start() and not yet terminated.
Supervising(p) ==
    proc[p].pc \in {"setup", "while", "share", "sleep",
                    "fin_rm", "fin_um", "exit_rm", "exit_um"}

\* C1: at most one process at a time has passed the is_running check of
\* start() and has not yet terminated.
C1_SingleInstance == Cardinality({p \in Procs : Supervising(p)}) <= 1

\* C2: a process that has written the PID file and has terminated has
\* completed cleanup() (PID file removed, unmount_share called for every
\* share) before.
C2_CleanupOnEveryExit ==
    \A p \in Procs : (proc[p].pc = "dead" /\ proc[p].wrote) => proc[p].cleanups >= 1

\* The step is the body of the check_shares loop run by p for its share idx.
ChecksShare(p) ==
    /\ proc[p].pc = "share"
    /\ \/ proc'[p].pc = "sleep"
       \/ proc'[p].pc = "share" /\ proc'[p].idx = proc[p].idx + 1

\* C4: a share for which mount_share returned failure in one cycle has
\* mount_share attempted again when the next cycle, the running flag still
\* true, comes to it (unless the body of the loop raises before).
C4_RetryNextCycle ==
    [][\A p \in Procs :
         (/\ ChecksShare(p) /\ proc[p].running
          /\ lastRet # <<>> /\ lastRet[proc[p].idx] = "fail")
         => lastRet'[proc[p].idx] # "none"]_vars

\* C6: once the running flag is false, no share after the one being
\* processed is checked in that cycle, and no further sleep increment is
\* taken.
C6_CancellationPoints ==
    [][\A p \in Procs :
         /\ (ChecksShare(p) /\ proc[p].idx > 1) => proc[p].running
         /\ (proc[p].pc = "sleep" /\ proc'[p].pc = "sleep"
               /\ proc'[p].cnt = proc[p].cnt + 1) => proc[p].running]_vars

ReturnedFalse(s, t) ==
    IF s.pc \in {"start", "start_rm"} THEN t.pc = "setup" ELSE t = AfterStop(s)
ReturnedTrue(s, t) ==
    IF s.pc = "start" THEN t.pc = "dead" /\ t.exit = "1" ELSE t.pc = "k_term"

\* C12: is_running on no PID file returns False and creates none; on a PID
\* file that names a live process it returns True and leaves the file as it
\* is; on a PID file that names no live process it goes on to
\* remove_pid_file, after which the file is gone, and returns False.
C12_StaleLock ==
    [][\A p \in Procs :
         LET s == proc[p]
             t == proc'[p]
         IN  /\ (s.pc \in {"start", "main"} /\ t # s /\ t.exit # "signal") =>
                   CASE pidFile = 0 -> pidFile' = 0 /\ ReturnedFalse(s, t)
                     [] Alive(pidFile) -> pidFile' = pidFile /\ ReturnedTrue(s, t)
                     [] OTHER -> /\ pidFile' = pidFile
                                 /\ t.pc = IF s.pc = "start" THEN "start_rm" ELSE "main_rm"
             /\ (s.pc \in {"start_rm", "main_rm"} /\ t # s /\ t.exit # "signal") =>
                   pidFile' = 0 /\ ReturnedFalse(s, t)]_vars

\* is_running has found the PID file to name no live process.
C12_Witness ==
    \E p \in Procs : proc[p].pc \in {"start_rm", "main_rm"} /\ pidFile = StalePid

\* The running flag of the supervisor of SpecLive is true.
FlagTrue == proc[1].running

\* Every complete share of the configuration is mounted, and the server
\* answers.
Converged ==
    /\ nfs = "up"
    /\ \A i \in 1..Len(config) : Complete(config[i]) => mounted[config[i].local_path]

\* C14: if the running flag stays true and from some point on the server is
\* up (mount and probe succeed, nobody else unmounts), then from some point
\* on every complete share is mounted and accessible for good. As long as the
\* flag stays true every share is checked again and again, and the check of
\* a share that is mounted while the server is down (its probe fails) calls
\* mount_share after the unmount, which fails until the server is back.
C14_Convergence ==
    /\ ([]FlagTrue /\ <>[](nfs = "up")) => <>[]Converged
    /\ []FlagTrue =>
          \A i \in 1..MaxShares : []<>(i <= Len(config) => proc[1].pc = "share" /\ proc[1].idx = i)
    /\ [][\A p \in Procs :
            (/\ ChecksShare(p) /\ nfs = "down"
             /\ config[proc[p].idx].local_path # ""
             /\ mounted[config[proc[p].idx].local_path])
            => lastRet'[proc[p].idx] = "fail"]_vars

\* The server is up, every complete share is mounted, and the last check of
\* one of them mounted it.
C14_Witness ==
    /\ Converged /\ proc[1].pc = "sleep" /\ proc[1].running
    /\ \E i \in 1..Len(config) : lastRet[i] = "ok"

\* C15: the loop of start() enters check_shares only from its `while` test
\* with the flag true, and the sleep loop only after the last share; a sleep
\* increment is taken only with the flag true and fewer than 60 taken, and
\* with the flag true the sleep loop is left only after 60. With the flag
\* false the next step of the sleep loop leaves it without an increment (the
\* increment the signal interrupts is the one that step ends), the `while`
\* test then goes to cleanup without check_shares, and the flag stays false.
C15_BoundedShutdown ==
    [][\A p \in Procs :
         LET s == proc[p]
             t == proc'[p]
         IN  /\ (s.pc = "sleep" /\ t.pc = "sleep" /\ t.cnt # s.cnt) =>
                   s.running /\ s.cnt < SleepIncrements /\ t.cnt = s.cnt + 1
             /\ (s.pc = "sleep" /\ t.pc # "sleep") =>
                   t.pc = "while" /\ (s.running => s.cnt = SleepIncrements)
             /\ (s.pc = "while" /\ t.pc # "while") =>
                   IF s.running THEN t.pc = "share" /\ t.idx = 1 ELSE t.pc = "fin_rm"
             /\ (s.pc # "share" /\ t.pc = "share") => s.pc = "while" /\ s.running
             /\ (s.pc # "sleep" /\ t.pc = "sleep") =>
                   s.pc = "share" /\ s.idx = Len(config) /\ t.cnt = 0
             /\ (s.pc # "idle" /\ ~s.running) => ~t.running]_vars

\* The flag has become false in the sleep phase, some increments taken.
C15_Witness ==
    \E p \in Procs :
        /\ proc[p].pc = "sleep" /\ ~proc[p].running
        /\ proc[p].cnt > 0 /\ proc[p].cnt < SleepIncrements

\* C16: start() that finds the PID file naming a live process exits with
\* status 1, having installed no handler and no exit hook, written no PID
\* file and run no cleanup; the PID file, the mount table and every other
\* process are as they were.
C16_RejectedStart ==
    [][\A p \in Procs :
         LET s == proc[p]
             t == proc'[p]
         IN  (/\ s.pc = "start" /\ t # s /\ t.exit # "signal"
              /\ pidFile # 0 /\ Alive(pidFile)) =>
                /\ t.pc = "dead" /\ t.exit = "1"
                /\ ~t.hooked /\ ~t.wrote /\ t.cleanups = 0
                /\ pidFile' = pidFile
                /\ mounted' = mounted
                /\ \A q \in Procs \ {p} : proc'[q] = proc[q]]_vars

\* A start was rejected; the instance it found is in its loop, a share
\* mounted, the PID file its own.
C16_Witness ==
    \E p, q \in Procs :
        /\ proc[p].exit = "1"
        /\ proc[q].pc = "sleep" /\ pidFile = q
        /\ \E path \in Paths : mounted[path]

\* Process p takes a step of cleanup() (a signal changes neither pc nor idx).
CleanupStep(p) ==
    /\ proc[p].pc \in {"fin_rm", "fin_um", "exit_rm", "exit_um"}
    /\ proc'[p].pc # proc[p].pc \/ proc'[p].idx # proc[p].idx

\* The first cleanup() call: the PID file is removed, then unmount_share is
\* called for share 1, 2, ... up to the last, whatever each call returns.
FirstCleanupInOrder(p) ==
    /\ proc[p].pc = "fin_rm" =>
          pidFile' = 0 /\ proc'[p].pc = "fin_um" /\ proc'[p].idx = 1
    /\ proc[p].pc = "fin_um" =>
          IF proc[p].idx < Len(config)
          THEN proc'[p].pc = "fin_um" /\ proc'[p].idx = proc[p].idx + 1
          ELSE proc'[p].pc = "exit_rm" /\ proc'[p].cleanups = 1

\* C17 as claimed: the first cleanup() removes the PID file and calls
\* unmount_share for every share in order whatever the calls return; the
\* second leaves the PID file absent and the mount table as the first left it.
C17_Original ==
    [][\A p \in Procs :
         CleanupStep(p) =>
            /\ FirstCleanupInOrder(p)
            /\ proc[p].pc \in {"exit_rm", "exit_um"} =>
                  pidFile = 0 /\ pidFile' = 0 /\ mounted' = mounted]_vars

\* C17 amended: the first cleanup() as claimed; the second raises nothing
\* (the process ends with status 0, two calls completed), leaves the PID file
\* absent, mounts nothing and leaves unmounted what the first call
\* unmounted; a path that the first call left mounted may get unmounted.
C17_CleanupTwice ==
    [][\A p \in Procs :
         CleanupStep(p) =>
            /\ FirstCleanupInOrder(p)
            /\ proc[p].pc \in {"exit_rm", "exit_um"} =>
                  /\ pidFile = 0 /\ pidFile' = 0
                  /\ \A path \in Paths : mounted'[path] => mounted[path]
                  /\ proc'[p].pc \in {"exit_um", "dead"}
                  /\ proc'[p].pc = "dead" =>
                        proc'[p].exit = "0" /\ proc'[p].cleanups = 2]_vars

\* Both cleanup() calls are through, a force-unmount having failed in each.
C17_Witness ==
    \E p \in Procs :
        /\ proc[p].pc = "dead" /\ proc[p].cleanups = 2
        /\ \E path \in Paths : mounted[path]

\* C18: stop_running_instance polls at most StopPolls times after SIGTERM;
\* it leaves the poll loop either for SIGKILL, after StopPolls polls that all
\* found the target alive, the target alive when it is killed, or because
\* the target has died, and then without SIGKILL, for remove_pid_file and
\* return True.
C18_StopEscalation ==
    [][\A p \in Procs :
         LET s == proc[p]
             t == proc'[p]
         IN  /\ (s.pc = "k_term" /\ t.pc = "k_poll") =>
                   pidFile # 0 /\ t.target = pidFile /\ t.cnt = 0
             /\ (s.pc = "k_poll" /\ t.pc = "k_poll" /\ t.cnt # s.cnt) =>
                   t.cnt = s.cnt + 1 /\ t.cnt <= StopPolls
             /\ (s.pc = "k_poll" /\ t.pc \in {"k_rm", "k_err"}) =>
                   /\ t.pc = "k_rm"
                   /\ IF Alive(s.target)
                      THEN s.cnt = StopPolls /\ proc'[s.target].pc = "dead"
                      ELSE proc'[s.target] = proc[s.target]
             /\ (s.pc = "k_rm" /\ t # s /\ t.exit # "signal") => pidFile' = 0]_vars

\* The step of p changes the PID file.
WritesPidFile(p) == pidFile' # pidFile /\ proc'[p] # proc[p]

\* C19: a process in the loop of start() (its `while` test, check_shares,
\* the sleep loop) finds its own PID in the PID file; and no process removes
\* or overwrites the PID file while it names another live process.
C19_PidFileOwnership ==
    /\ [](\A p \in Procs : proc[p].pc \in {"while", "share", "sleep"} => pidFile = p)
    /\ [][\A p \in Procs :
            WritesPidFile(p) => ~(pidFile # 0 /\ pidFile # p /\ Alive(pidFile))]_vars

====
